---- MODULE Spec2Model ----
(***************************************************************************)
(* Model of lambda_function.py: the SFTP -> S3 batch job.                  *)
(*                                                                         *)
(* Strings are sequences of one-character strings, so that the regular     *)
(* expression of parse_filename, the f-string group key, the path joins    *)
(* and Python's code-point ordering of sorted() are computed, not assumed. *)
(***************************************************************************)
EXTENDS Integers, Sequences, FiniteSets, TLC

(***************************************************************************)
(* Bounds of the model.                                                    *)
(***************************************************************************)
\* the longest remote directory listing that is explored
MaxListing == 3

(***************************************************************************)
(* Characters and Python's str ordering (code-point order).                *)
(***************************************************************************)
Digits == {"0", "1", "2", "3", "4", "5", "6", "7", "8", "9"}

\* the characters of the model in ascending code-point order:
\* "\n" (10) < "." (46) < "/" (47) < "0".."9" (48..57) < "_" (95) < "a".."z"
CharOrder ==
    <<"\n", ".", "/",
      "0", "1", "2", "3", "4", "5", "6", "7", "8", "9",
      "_",
      "a", "b", "c", "d", "e", "f", "g", "h", "i", "j", "k", "l", "m",
      "n", "o", "p", "q", "r", "s", "t", "u", "v", "w", "x", "y", "z">>

Ord(c) == CHOOSE i \in 1..Len(CharOrder) : CharOrder[i] = c

\* s[a..b], empty when b < a
Slice(s, a, b) == IF b < a THEN <<>> ELSE SubSeq(s, a, b)

\* str.endswith
EndsWith(s, suffix) ==
    /\ Len(s) >= Len(suffix)
    /\ Slice(s, Len(s) - Len(suffix) + 1, Len(s)) = suffix

\* Python's a < b on str: the first differing character decides, a proper
\* prefix is smaller
StrLess(a, b) ==
    LET n == IF Len(a) < Len(b) THEN Len(a) ELSE Len(b)
        diff == {i \in 1..n : a[i] # b[i]}
    IN  IF diff = {}
        THEN Len(a) < Len(b)
        ELSE LET i == CHOOSE j \in diff : \A k \in diff : j <= k
             IN  Ord(a[i]) < Ord(b[i])

RECURSIVE InsertSorted(_, _)
InsertSorted(x, s) ==
    IF s = <<>> THEN <<x>>
    ELSE IF StrLess(x, Head(s)) THEN <<x>> \o s
    ELSE <<Head(s)>> \o InsertSorted(x, Tail(s))

\* mutant of Sorted: merge_files without sorted(), files taken in list order
Sorted_listing_order(s) == s

\* sorted(file_paths): stable, ascending
RECURSIVE Sorted(_)
Sorted(s) ==
    IF s = <<>> THEN <<>>
    ELSE InsertSorted(s[Len(s)], Sorted(Slice(s, 1, Len(s) - 1)))

DOT_ZIP == <<".", "z", "i", "p">>
DOT_CSV == <<".", "c", "s", "v">>
DOT_GZ  == <<".", "g", "z">>
\* self.local_temp_dir
LOCAL_TEMP_DIR == <<"/", "t", "m", "p">>

(***************************************************************************)
(* parse_filename: ^(?:(\d+)_)?(\d{8})_(.+?)(?:\.zip|\.csv)$               *)
(***************************************************************************)
\* \d{8}
DateLen == 8

\* None for a field of a descriptor: the empty tuple; a value v is <<v>>
None == <<>>
Some(v) == <<v>>

AllDigits(s, a, b) == \A i \in a..b : s[i] \in Digits

\* length of the run of digits that starts at position i (greedy \d+)
RECURSIVE DigitRun(_, _)
DigitRun(s, i) ==
    IF i <= Len(s) /\ s[i] \in Digits THEN 1 + DigitRun(s, i + 1) ELSE 0

\* where $ can match: at the end of the string, or just before a final "\n"
EndAnchor(s) ==
    IF Len(s) > 0 /\ s[Len(s)] = "\n" THEN Len(s) - 1 ELSE Len(s)

\* (\d{8})_(.+?)(?:\.zip|\.csv)$ tried at position i: None, or the two groups
MatchRest(s, i) ==
    LET e         == EndAnchor(s)
        baseFirst == i + DateLen + 1
        baseLast  == e - Len(DOT_ZIP)
    IN  IF /\ baseFirst <= baseLast
           /\ AllDigits(s, i, i + DateLen - 1)
           /\ s[i + DateLen] = "_"
           /\ \A j \in baseFirst..baseLast : s[j] # "\n"
           /\ Slice(s, baseLast + 1, e) \in {DOT_ZIP, DOT_CSV}
        THEN Some([date |-> Slice(s, i, i + DateLen - 1),
                   base_name |-> Slice(s, baseFirst, baseLast)])
        ELSE None

\* int(part_num)
RECURSIVE ToInt(_)
ToInt(d) ==
    IF d = <<>> THEN 0
    ELSE 10 * ToInt(Slice(d, 1, Len(d) - 1)) + (Ord(d[Len(d)]) - Ord("0"))

\* the descriptor of a filename, or None. The optional group is greedy: it is
\* tried first, and \d+ followed by "_" can only be the whole run of digits.
parse_filename(filename) ==
    LET k        == DigitRun(filename, 1)
        withPart == IF k >= 1 /\ k + 1 <= Len(filename) /\ filename[k + 1] = "_"
                    THEN MatchRest(filename, k + 2)
                    ELSE None
        noPart   == MatchRest(filename, 1)
    IN  IF withPart # None
        THEN Some([part_num  |-> Some(ToInt(Slice(filename, 1, k))),
                   date      |-> withPart[1].date,
                   base_name |-> withPart[1].base_name,
                   is_zip    |-> EndsWith(filename, DOT_ZIP),
                   full_name |-> filename])
        ELSE IF noPart # None
        THEN Some([part_num  |-> None,
                   date      |-> noPart[1].date,
                   base_name |-> noPart[1].base_name,
                   is_zip    |-> EndsWith(filename, DOT_ZIP),
                   full_name |-> filename])
        ELSE None

(***************************************************************************)
(* group_files                                                             *)
(***************************************************************************)
\* mutant of GroupKey: the date left out of the key
GroupKey_base_only(parsed) == parsed.base_name

\* f"{parsed['date']}_{parsed['base_name']}"
GroupKey(parsed) == parsed.date \o <<"_">> \o parsed.base_name

\* grouped_files is an insertion-ordered dict: a sequence of [key, members]
KeyIndex(grouped, key) ==
    IF \E i \in 1..Len(grouped) : grouped[i].key = key
    THEN CHOOSE i \in 1..Len(grouped) : grouped[i].key = key
    ELSE 0

\* one iteration of the loop of group_files
AddFile(grouped, file) ==
    LET parsed == parse_filename(file) IN
    IF parsed = None THEN grouped
    ELSE LET key == GroupKey(parsed[1])
             i   == KeyIndex(grouped, key)
         IN  IF i = 0
             THEN Append(grouped, [key |-> key, members |-> <<parsed[1]>>])
             ELSE [grouped EXCEPT ![i].members = Append(@, parsed[1])]

RECURSIVE group_files(_)
group_files(files) ==
    IF files = <<>> THEN <<>>
    ELSE AddFile(group_files(Slice(files, 1, Len(files) - 1)), files[Len(files)])

(***************************************************************************)
(* Paths (os.path) and file contents.                                      *)
(***************************************************************************)
\* os.path.join(a, b) for a relative b
Join(a, b) == a \o <<"/">> \o b

\* f"{self.local_temp_dir}/{group_key}"
WorkDir(group_key) == LOCAL_TEMP_DIR \o <<"/">> \o group_key

\* position of the last "/" of a path, 0 when it has none
LastSlash(path) ==
    LET at == {i \in 1..Len(path) : path[i] = "/"}
    IN  IF at = {} THEN 0 ELSE CHOOSE i \in at : \A j \in at : j <= i

\* os.path.basename
Basename(path) == Slice(path, LastSlash(path) + 1, Len(path))

\* os.path.splitext(path)[0]: cut at the last dot of the last component,
\* unless that component has no dot or only leading dots
SplitExtRoot(path) ==
    LET b    == LastSlash(path) + 1
        dots == {i \in b..Len(path) : path[i] = "."}
    IN  IF dots = {} THEN path
        ELSE LET d == CHOOSE i \in dots : \A j \in dots : j <= i
             IN  IF \A i \in b..d : path[i] = "." THEN path
                 ELSE Slice(path, 1, d - 1)

\* a is a path inside directory dir
Under(dir, a) ==
    /\ Len(a) > Len(dir)
    /\ Slice(a, 1, Len(dir) + 1) = dir \o <<"/">>

\* The bytes of a remote file: one token per file, the file's own name, so
\* that the files a reassembled artifact holds, and their order, can be read
\* off its content. enc lists the transformations applied to the bytes.
RemoteContent(name) == [bytes |-> <<name>>, enc |-> <<>>]

EmptyFile == [bytes |-> <<>>, enc |-> <<>>]

\* what zip_ref.extractall leaves when the archive's member has another name
\* than the archive itself
OTHER_MEMBER == <<"d", "a", "t", "a">>

(***************************************************************************)
(* merge_files                                                             *)
(***************************************************************************)
\* the loop of merge_files over an already sorted list. output_path has been
\* opened 'wb' (created or truncated) before the loop: a member stored at
\* output_path itself is read back as the file the loop is writing, whose
\* buffered bytes have not reached the disk (see MergeOutcomes).
RECURSIVE ConcatInOrder(_, _, _)
ConcatInOrder(paths, fsys, output_path) ==
    IF paths = <<>> THEN <<>>
    ELSE (IF Head(paths) = output_path THEN <<>> ELSE fsys[Head(paths)].bytes)
         \o ConcatInOrder(Tail(paths), fsys, output_path)

merge_files(file_paths, output_path, fsys) ==
    [bytes |-> ConcatInOrder(Sorted(file_paths), fsys, output_path),
     enc   |-> <<>>]

\* How merge_files can end. When one of file_paths is output_path, the loop
\* reads the file it is writing: either it sees none of the bytes written so
\* far (all still buffered) and adds nothing, or it sees flushed bytes, copies
\* them behind themselves and grows the file until the disk is full (OSError).
MergeOutcomes(file_paths, output_path) ==
    IF \E i \in 1..Len(file_paths) : file_paths[i] = output_path
    THEN {"ok", "io_error", "disk_full"}
    ELSE {"ok", "io_error"}

\* any(f['part_num'] for f in file_group): None and 0 are both falsy
Truthy(part_num) == part_num # None /\ part_num[1] # 0

AnyPartNum(file_group) ==
    \E i \in 1..Len(file_group) : Truthy(file_group[i].part_num)

(***************************************************************************)
(* gzip_file                                                               *)
(***************************************************************************)
\* 250 * 1024 * 1024
SIZE_LIMIT == 250 * 1024 * 1024

\* mutant of ExceedsLimit: >= in place of >
ExceedsLimit_inclusive(size) == size >= SIZE_LIMIT

\* os.path.getsize(output_path) > 250 * 1024 * 1024
ExceedsLimit(size) == size > SIZE_LIMIT

\* the sizes a compressed artifact is given: small, and the two sides of the
\* ceiling
GzipSizes == {SIZE_LIMIT - SIZE_LIMIT \div 2, SIZE_LIMIT, SIZE_LIMIT + 1}

(***************************************************************************)
(* The remote server.                                                      *)
(***************************************************************************)
D15 == <<"2", "0", "2", "4", "0", "1", "1", "5">>
D16 == <<"2", "0", "2", "4", "0", "1", "1", "6">>

\* the filenames the remote directory can hold
Universe ==
    { <<"1", "_">> \o D15 \o <<"_", "a">> \o DOT_CSV,
      <<"2", "_">> \o D15 \o <<"_", "a">> \o DOT_CSV,
      <<"1", "0", "_">> \o D15 \o <<"_", "a">> \o DOT_CSV,
      <<"0", "_">> \o D15 \o <<"_", "a">> \o DOT_CSV,
      D15 \o <<"_", "a">> \o DOT_CSV,
      D15 \o <<"_", "a">> \o DOT_ZIP,
      D16 \o <<"_", "a">> \o DOT_ZIP,
      D15 \o <<"_">> \o D16 \o <<"_", "a">> \o DOT_CSV,
      <<"0", "1", "_">> \o D16 \o <<"_", "b", "_", "c">> \o DOT_ZIP,
      <<"2", "0", "2", "4", "0", "1", "1", "_", "a">> \o DOT_CSV }

\* what listdir('.') can return: distinct names, in any order
Listings ==
    {l \in UNION {[1..n -> Universe] : n \in 0..MaxListing} :
        \A i, j \in 1..Len(l) : i # j => l[i] # l[j]}

(***************************************************************************)
(* State of one invocation of lambda_handler.                              *)
(***************************************************************************)
VARIABLES
    pc,                   \* position of lambda_handler / process_file_group
    transport,            \* processor.transport: "None", "open" or "closed"
    sftp_client,          \* processor.sftp_client: "None", "open" or "closed"
    raising,              \* lambda_handler is propagating an exception
    files,                \* files = processor.sftp_client.listdir('.')
    grouped_files,        \* grouped_files, in dict (insertion) order
    gi,                   \* index of the group the for loop is at
    exc,                  \* the exception process_file_group is raising, or None
    local_files,          \* local_files of process_file_group
    final_files,          \* final_files of process_file_group
    fi,                   \* index of the file the current inner loop is at
    gz_size,              \* os.path.getsize(gzipped_path) of the current file
    processed_files,      \* processed_files of process_file_group
    merged,               \* the multi-part branch was taken for this group
    dirs,                 \* the working directories that exist under /tmp
    fs,                   \* the local files: path -> content
    s3_objects,           \* the bucket: s3_key -> [size, body]
    all_processed_files,  \* all_processed_files of lambda_handler
    processing_errors,    \* processing_errors of lambda_handler
    uploads,              \* log: s3 keys whose upload_file call succeeded
    fetched,              \* log: names sftp_client.get returned for, this group
    get_on_closed,        \* log: a get was issued on a closed connection
    group_log             \* log: one entry per finished process_file_group call

vars == <<pc, transport, sftp_client, raising, files, grouped_files, gi, exc,
          local_files, final_files, fi, gz_size, processed_files, merged, dirs,
          fs, s3_objects, all_processed_files, processing_errors, uploads,
          fetched, get_on_closed, group_log>>

connVars  == <<transport, sftp_client>>
groupVars == <<local_files, final_files, fi, gz_size, processed_files, merged>>
diskVars  == <<dirs, fs>>
outVars   == <<all_processed_files, processing_errors>>
logVars   == <<uploads, fetched, get_on_closed, group_log>>

EmptyFn == [x \in {} |-> x]

\* the group the for loop of lambda_handler is at
group_key  == grouped_files[gi].key
file_group == grouped_files[gi].members
work_dir   == WorkDir(group_key)

Init ==
    /\ pc = "start"
    /\ transport = "None"
    /\ sftp_client = "None"
    /\ raising = FALSE
    /\ files = <<>>
    /\ grouped_files = <<>>
    /\ gi = 0
    /\ exc = None
    /\ local_files = <<>>
    /\ final_files = <<>>
    /\ fi = 0
    /\ gz_size = 0
    /\ processed_files = <<>>
    /\ merged = FALSE
    /\ dirs = {}
    /\ fs = EmptyFn
    /\ s3_objects = EmptyFn
    /\ all_processed_files = <<>>
    /\ processing_errors = <<>>
    /\ uploads = <<>>
    /\ fetched = {}
    /\ get_on_closed = FALSE
    /\ group_log = <<>>

(***************************************************************************)
(* lambda_handler, up to the loop over the groups.                         *)
(***************************************************************************)
\* lines 158-167: a missing environment variable raises before any I/O
Start ==
    /\ pc = "start"
    /\ \E missing_vars \in BOOLEAN :
          pc' = IF missing_vars THEN "raised" ELSE "connect"
    /\ UNCHANGED <<connVars, raising, files, grouped_files, gi, exc, groupVars,
                   diskVars, s3_objects, outVars, logVars>>

\* the except clause of lines 187-191: record the error, then re-raise
\* through the finally clause
OuterError(what) == [group |-> None, error |-> what]

\* connect_sftp, that can fail before the transport exists (secret, key,
\* socket), with the transport assigned (handshake, channel), or return with
\* from_transport having given None
ConnectSftp ==
    /\ pc = "connect"
    /\ \E outcome \in {"secret", "socket", "handshake", "channel", "no_client", "ok"} :
          /\ transport' = IF outcome \in {"secret", "socket"} THEN "None" ELSE "open"
          /\ sftp_client' = IF outcome = "ok" THEN "open" ELSE "None"
          /\ IF outcome \in {"ok", "no_client"}
             THEN /\ pc' = "list"
                  /\ UNCHANGED <<raising, processing_errors>>
             ELSE /\ pc' = "finally"
                  /\ raising' = TRUE
                  /\ processing_errors' = Append(processing_errors, OuterError(outcome))
    /\ UNCHANGED <<files, grouped_files, gi, exc, groupVars, diskVars, s3_objects,
                   all_processed_files, logVars>>

\* lines 174-175: listdir and group_files
ListAndGroup ==
    /\ pc = "list"
    /\ \/ /\ sftp_client = "open"
          /\ \E l \in Listings :
                /\ files' = l
                /\ grouped_files' = group_files(l)
          /\ gi' = 1
          /\ pc' = "loop"
          /\ UNCHANGED <<raising, processing_errors>>
       \/ /\ pc' = "finally"
          /\ raising' = TRUE
          /\ processing_errors' = Append(processing_errors, OuterError("listdir"))
          /\ UNCHANGED <<files, grouped_files, gi>>
    /\ UNCHANGED <<connVars, exc, groupVars, diskVars, s3_objects,
                   all_processed_files, logVars>>

(***************************************************************************)
(* process_file_group, one action per step, for the group at index gi.     *)
(* A step that raises sets exc and goes to the finally clause ("cleanup"). *)
(***************************************************************************)
\* the for loop of line 178 takes the next group; lines 112-116
BeginGroup ==
    /\ pc = "loop"
    /\ gi <= Len(grouped_files)
    /\ local_files' = <<>>
    /\ final_files' = <<>>
    /\ processed_files' = <<>>
    /\ fi' = 1
    /\ gz_size' = 0
    /\ merged' = FALSE
    /\ fetched' = {}
    /\ \/ /\ dirs' = dirs \cup {work_dir}
          /\ pc' = "download"
          /\ exc' = None
       \/ /\ exc' = Some("makedirs")
          /\ pc' = "cleanup"
          /\ UNCHANGED dirs
    /\ UNCHANGED <<connVars, raising, files, grouped_files, gi, fs, s3_objects,
                   outVars, uploads, get_on_closed, group_log>>

\* the for loop of line 178 is exhausted
LoopExit ==
    /\ pc = "loop"
    /\ gi > Len(grouped_files)
    /\ pc' = "finally"
    /\ UNCHANGED <<connVars, raising, files, grouped_files, gi, exc, groupVars,
                   diskVars, s3_objects, outVars, logVars>>

\* mutant of DownloadsDone: the multi-part step placed inside the download loop
DownloadsDone_first(i, group) == i >= 1

\* the for loop of line 120 has gone through every member of the group
DownloadsDone(i, group) == i = Len(group)

\* lines 120-123, one member per step
Download ==
    /\ pc = "download"
    /\ LET file_info  == file_group[fi]
           local_path == Join(work_dir, file_info.full_name)
       IN  /\ get_on_closed' = (get_on_closed \/ sftp_client # "open")
           /\ \/ /\ sftp_client = "open"
                 /\ fs' = (local_path :> RemoteContent(file_info.full_name)) @@ fs
                 /\ local_files' = Append(local_files, local_path)
                 /\ fetched' = fetched \cup {file_info.full_name}
                 /\ IF DownloadsDone(fi, file_group)
                    THEN pc' = "merge" /\ fi' = 1
                    ELSE pc' = pc /\ fi' = fi + 1
                 /\ UNCHANGED exc
              \/ /\ exc' = Some("download")
                 /\ pc' = "cleanup"
                 /\ UNCHANGED <<fs, local_files, fetched, fi>>
    /\ UNCHANGED <<connVars, raising, files, grouped_files, gi, final_files,
                   gz_size, processed_files, merged, dirs, s3_objects, outVars,
                   uploads, group_log>>

\* lines 126-129
HandleMultiPart ==
    /\ pc = "merge"
    /\ IF AnyPartNum(file_group)
       THEN LET merged_path == Join(work_dir, group_key \o DOT_CSV) IN
            /\ merged' = TRUE
            /\ \E outcome \in MergeOutcomes(local_files, merged_path) :
                  IF outcome = "ok"
                  THEN /\ fs' = (merged_path :>
                                    merge_files(local_files, merged_path, fs)) @@ fs
                       /\ local_files' = <<merged_path>>
                       /\ pc' = "unzip"
                       /\ UNCHANGED exc
                  ELSE /\ fs' = (merged_path :> EmptyFile) @@ fs
                       /\ exc' = Some(outcome)
                       /\ pc' = "cleanup"
                       /\ UNCHANGED local_files
       ELSE /\ pc' = "unzip"
            /\ UNCHANGED <<merged, fs, local_files, exc>>
    /\ UNCHANGED <<connVars, raising, files, grouped_files, gi, final_files, fi,
                   gz_size, processed_files, dirs, s3_objects, outVars, logVars>>

\* unzip_file: extractall into extract_path; the returned path is the
\* archive's path without its extension, whatever the archive held
UnzipOutcomes == {"ok", "other_member", "bad_zip"}

\* lines 132-138, one file per step
HandleZip ==
    /\ pc = "unzip"
    /\ LET local_file == local_files[fi]
           advance    == IF fi = Len(local_files)
                         THEN pc' = "gzip" /\ fi' = 1
                         ELSE pc' = pc /\ fi' = fi + 1
       IN  IF EndsWith(local_file, DOT_ZIP)
           THEN LET unzipped_path == SplitExtRoot(local_file) IN
                \E outcome \in UnzipOutcomes :
                   IF outcome = "bad_zip"
                   THEN /\ exc' = Some("bad_zip")
                        /\ pc' = "cleanup"
                        /\ UNCHANGED <<fs, final_files, fi>>
                   ELSE /\ LET extracted == IF outcome = "ok"
                                             THEN unzipped_path
                                             ELSE Join(work_dir, OTHER_MEMBER)
                           IN  fs' = (extracted :>
                                        [bytes |-> fs[local_file].bytes,
                                         enc   |-> Append(fs[local_file].enc, "unzip")])
                                     @@ fs
                        /\ final_files' = Append(final_files, unzipped_path)
                        /\ advance
                        /\ UNCHANGED exc
           ELSE /\ final_files' = Append(final_files, local_file)
                /\ advance
                /\ UNCHANGED <<fs, exc>>
    /\ UNCHANGED <<connVars, raising, files, grouped_files, gi, local_files,
                   gz_size, processed_files, merged, dirs, s3_objects, outVars,
                   logVars>>

\* lines 142-143 and gzip_file, for final_files[fi]
GzipFile ==
    /\ pc = "gzip"
    /\ LET file_path    == final_files[fi]
           gzipped_path == file_path \o DOT_GZ
       IN  IF file_path \notin DOMAIN fs
           THEN /\ exc' = Some("not_found")
                /\ pc' = "cleanup"
                /\ UNCHANGED <<fs, gz_size>>
           ELSE \/ /\ fs' = (gzipped_path :> EmptyFile) @@ fs
                   /\ exc' = Some("io_error")
                   /\ pc' = "cleanup"
                   /\ UNCHANGED gz_size
                \/ \E size \in GzipSizes :
                      /\ fs' = (gzipped_path :>
                                  [bytes |-> fs[file_path].bytes,
                                   enc   |-> Append(fs[file_path].enc, "gzip")])
                               @@ fs
                      /\ gz_size' = size
                      /\ IF ExceedsLimit(size)
                         THEN exc' = Some("size_limit") /\ pc' = "cleanup"
                         ELSE exc' = exc /\ pc' = "upload"
    /\ UNCHANGED <<connVars, raising, files, grouped_files, gi, local_files,
                   final_files, fi, processed_files, merged, dirs, s3_objects,
                   outVars, logVars>>

\* lines 146-148 and upload_to_s3, for final_files[fi]
Upload ==
    /\ pc = "upload"
    /\ LET gzipped_path == final_files[fi] \o DOT_GZ
           s3_key       == Basename(gzipped_path)
       IN  \/ /\ s3_objects' = (s3_key :> [size |-> gz_size, body |-> fs[gzipped_path]])
                               @@ s3_objects
              /\ uploads' = Append(uploads, s3_key)
              /\ processed_files' = Append(processed_files, s3_key)
              /\ IF fi = Len(final_files)
                 THEN pc' = "cleanup" /\ fi' = fi
                 ELSE pc' = "gzip" /\ fi' = fi + 1
              /\ UNCHANGED exc
           \/ /\ exc' = Some("upload")
              /\ pc' = "cleanup"
              /\ UNCHANGED <<s3_objects, uploads, processed_files, fi>>
    /\ UNCHANGED <<connVars, raising, files, grouped_files, gi, local_files,
                   final_files, gz_size, merged, diskVars, outVars, fetched,
                   get_on_closed, group_log>>

\* shutil.rmtree(work_dir)
RmTree(fsys, dir) ==
    LET keep == {p \in DOMAIN fsys : ~Under(dir, p)} IN [p \in keep |-> fsys[p]]

\* mutant of Cleanup: the rmtree at the end of the try body, not in a finally
Cleanup_on_success_only ==
    /\ pc = "cleanup"
    /\ IF work_dir \in dirs /\ exc = None
       THEN /\ dirs' = dirs \ {work_dir}
            /\ fs' = RmTree(fs, work_dir)
       ELSE UNCHANGED <<dirs, fs>>
    /\ group_log' = Append(group_log, [key      |-> group_key,
                                       raised   |-> exc # None,
                                       uploaded |-> processed_files])
    /\ pc' = "group_done"
    /\ UNCHANGED <<connVars, raising, files, grouped_files, gi, exc, groupVars,
                   s3_objects, outVars, uploads, fetched, get_on_closed>>

\* the finally clause, lines 150-153, on the way out of process_file_group
Cleanup ==
    /\ pc = "cleanup"
    /\ IF work_dir \in dirs
       THEN /\ dirs' = dirs \ {work_dir}
            /\ fs' = RmTree(fs, work_dir)
       ELSE UNCHANGED <<dirs, fs>>
    /\ group_log' = Append(group_log, [key      |-> group_key,
                                       raised   |-> exc # None,
                                       uploaded |-> processed_files])
    /\ pc' = "group_done"
    /\ UNCHANGED <<connVars, raising, files, grouped_files, gi, exc, groupVars,
                   s3_objects, outVars, uploads, fetched, get_on_closed>>

(***************************************************************************)
(* lambda_handler, from the end of one group on.                           *)
(***************************************************************************)
\* lines 180-181: process_file_group returned its processed_files
GroupReturned ==
    /\ pc = "group_done"
    /\ exc = None
    /\ all_processed_files' = all_processed_files \o processed_files
    /\ gi' = gi + 1
    /\ pc' = "loop"
    /\ UNCHANGED <<connVars, raising, files, grouped_files, exc, groupVars,
                   diskVars, s3_objects, processing_errors, logVars>>

\* f"Error processing group {group_key}: {str(e)}"
GroupError(key, e) == [group |-> Some(key), error |-> e]

\* mutant of GroupFailed: no inner try, the outer except clause takes the error
GroupFailed_propagates ==
    /\ pc = "group_done"
    /\ exc # None
    /\ processing_errors' = Append(processing_errors, OuterError(exc[1]))
    /\ exc' = None
    /\ raising' = TRUE
    /\ pc' = "finally"
    /\ UNCHANGED <<connVars, files, grouped_files, gi, groupVars, diskVars,
                   s3_objects, all_processed_files, logVars>>

\* lines 182-185: process_file_group raised
GroupFailed ==
    /\ pc = "group_done"
    /\ exc # None
    /\ processing_errors' = Append(processing_errors, GroupError(group_key, exc[1]))
    /\ exc' = None
    /\ gi' = gi + 1
    /\ pc' = "loop"
    /\ UNCHANGED <<connVars, raising, files, grouped_files, groupVars, diskVars,
                   s3_objects, all_processed_files, logVars>>

\* self.sftp_client.close() / self.transport.close() when the field is set
Closed(handle) == IF handle = "None" THEN "None" ELSE "closed"

\* mutant of CloseSftp: the transport closed only under "if self.sftp_client"
CloseSftp_nested ==
    /\ pc = "finally"
    /\ sftp_client' = Closed(sftp_client)
    /\ transport' = IF sftp_client = "None" THEN transport ELSE Closed(transport)
    /\ pc' = IF raising THEN "raised" ELSE "done"
    /\ UNCHANGED <<raising, files, grouped_files, gi, exc, groupVars, diskVars,
                   s3_objects, outVars, logVars>>

\* the finally clause of line 193: close_sftp, then return or re-raise
CloseSftp ==
    /\ pc = "finally"
    /\ sftp_client' = Closed(sftp_client)
    /\ transport' = Closed(transport)
    /\ pc' = IF raising THEN "raised" ELSE "done"
    /\ UNCHANGED <<raising, files, grouped_files, gi, exc, groupVars, diskVars,
                   s3_objects, outVars, logVars>>

\* lines 195-202: the value lambda_handler returns
ReturnValue ==
    [statusCode      |-> IF processing_errors = <<>> THEN 200 ELSE 500,
     processed_files |-> all_processed_files,
     errors          |-> processing_errors]

Next ==
    \/ Start
    \/ ConnectSftp
    \/ ListAndGroup
    \/ BeginGroup
    \/ LoopExit
    \/ Download
    \/ HandleMultiPart
    \/ HandleZip
    \/ GzipFile
    \/ Upload
    \/ Cleanup
    \/ GroupReturned
    \/ GroupFailed
    \/ CloseSftp

Spec == Init /\ [][Next]_vars

(***************************************************************************)
(* Properties.                                                             *)
(***************************************************************************)
\* process_file_group is running, or has just ended, for the group at gi
InGroup == pc \in {"download", "merge", "unzip", "gzip", "upload", "cleanup", "group_done"}

Elems(seq) == {seq[i] : i \in 1..Len(seq)}

MemberNames(group) == {group[i].full_name : i \in 1..Len(group)}

\* a member was classified with a part number, whatever its value
HasPartNum(member) == member.part_num # None

\* lambda_handler has ended after a listing was obtained
EndedAfterListing == pc \in {"done", "raised"} /\ gi >= 1

\* C1 -- failure isolation: once the listing was obtained, lambda_handler
\* returns, every group has been taken through process_file_group, a group
\* that succeeded has produced all its objects and they are in the returned
\* processed_files, and the errors hold exactly one entry per failed group,
\* naming its key, and none for a group that succeeded.
C1_FailureIsolation ==
    EndedAfterListing =>
        /\ pc = "done"
        /\ Len(group_log) = Len(grouped_files)
        /\ Len(ReturnValue.errors)
              = Cardinality({i \in 1..Len(group_log) : group_log[i].raised})
        /\ \A i \in 1..Len(grouped_files) :
              LET g       == grouped_files[i]
                  l       == group_log[i]
                  entries == {j \in 1..Len(ReturnValue.errors) :
                                 ReturnValue.errors[j].group = Some(g.key)}
              IN  /\ l.key = g.key
                  /\ IF l.raised
                     THEN Cardinality(entries) = 1
                     ELSE /\ entries = {}
                          /\ Len(l.uploaded) = IF AnyPartNum(g.members)
                                               THEN 1 ELSE Len(g.members)
                          /\ Elems(l.uploaded) \subseteq Elems(ReturnValue.processed_files)

\* a batch in which a group failed and a later group succeeded
C1_Witness ==
    /\ pc = "done"
    /\ \E i, j \in 1..Len(group_log) :
          i < j /\ group_log[i].raised /\ ~group_log[j].raised

\* C2 -- working-directory cleanup: when process_file_group has returned or
\* raised, the group's working directory and everything in it are gone, and
\* when the loop takes a group no earlier group's directory exists.
C2_WorkDirCleanup ==
    /\ pc = "group_done" =>
          /\ work_dir \notin dirs
          /\ \A p \in DOMAIN fs : ~Under(work_dir, p)
    /\ pc = "loop" =>
          \A j \in 1..Len(grouped_files) :
              j < gi => WorkDir(grouped_files[j].key) \notin dirs

\* a second group has ended with a failed upload, after its files were made
C2_Witness ==
    /\ pc = "group_done"
    /\ gi = 2
    /\ exc = Some("upload")
    /\ fetched # {}

\* C3 -- connection release: when lambda_handler has ended, by return or by
\* exception, neither the SFTP client nor the transport is open, and no get
\* was ever issued on a connection that was not open.
C3_ConnectionReleased ==
    /\ pc \in {"done", "raised"} => (sftp_client # "open" /\ transport # "open")
    /\ ~get_on_closed

\* the handshake failed part-way: the transport was opened and is closed
C3_Witness ==
    /\ pc = "raised"
    /\ transport = "closed"
    /\ sftp_client = "None"

\* the content of the reassembled artifact, once merge_files has returned
MergeDone == pc = "unzip" /\ merged

MergedBytes == fs[local_files[1]].bytes

\* C4 -- reassembly content: the combined artifact {group_key}.csv holds the
\* bytes of every member of the group exactly once, in ascending order of the
\* members' local paths.
C4_ReassemblyContent ==
    MergeDone =>
        /\ local_files = <<Join(work_dir, group_key \o DOT_CSV)>>
        /\ Len(MergedBytes) = Len(file_group)
        /\ Elems(MergedBytes) = MemberNames(file_group)
        /\ \A i, j \in 1..Len(MergedBytes) :
              i < j => StrLess(Join(work_dir, MergedBytes[i]),
                               Join(work_dir, MergedBytes[j]))

\* C5 -- merge trigger: a group is given merge treatment if and only if one
\* of its members carries a numeric prefix; otherwise each file goes on alone.
C5_MergeTrigger ==
    pc \in {"unzip", "gzip", "upload"} =>
        /\ merged <=> \E i \in 1..Len(file_group) : HasPartNum(file_group[i])
        /\ ~merged => Len(local_files) = Len(file_group)

\* the places of the descriptors in grouped_files
Slots ==
    {sl \in (1..Len(grouped_files)) \X (1..MaxListing + 1) :
        sl[2] <= Len(grouped_files[sl[1]].members)}

SlotDesc(sl) == grouped_files[sl[1]].members[sl[2]]

\* group_files has just returned grouped_files for the listing files
Grouped == pc = "loop" /\ gi = 1

\* C6 -- grouping is a partition: the descriptor of each recognized listing
\* entry is in exactly one place, a rejected entry in none, the members of a
\* group agree on date and base_name, and descriptors that differ in date or
\* base_name are under different keys.
C6_GroupingIsPartition ==
    Grouped =>
    LET Places(i) == {sl \in Slots : SlotDesc(sl).full_name = files[i]}
        rejected  == {i \in 1..Len(files) : parse_filename(files[i]) = None}
    IN  /\ Cardinality(Slots) = Len(files) - Cardinality(rejected)
        /\ \A i \in rejected : Places(i) = {}
        /\ \A sl \in Slots :
              /\ Cardinality({i \in 1..Len(files) : sl \in Places(i)}) = 1
              /\ Some(SlotDesc(sl)) = parse_filename(SlotDesc(sl).full_name)
        /\ \A i \in 1..Len(files) : Cardinality(Places(i)) <= 1
        /\ \A a, b \in Slots :
              LET same == /\ SlotDesc(a).date = SlotDesc(b).date
                          /\ SlotDesc(a).base_name = SlotDesc(b).base_name
              IN  /\ a[1] = b[1] => same
                  /\ ~same => grouped_files[a[1]].key # grouped_files[b[1]].key

\* a listing of a rejected name and of two names that are put in two groups
\* because they differ in the date, and in nothing else
C6_Witness ==
    /\ Grouped
    /\ \E i \in 1..Len(files) : parse_filename(files[i]) = None
    /\ Len(grouped_files) = 2
    /\ grouped_files[1].members[1].base_name = grouped_files[2].members[1].base_name

\* C7 -- result completeness: the processed_files of the returned result are
\* exactly the object names whose upload succeeded during the batch.
C7_ResultCompleteness ==
    pc = "done" => ReturnValue.processed_files = uploads

\* C8 -- size ceiling: no stored object is larger than 250 MiB; the group
\* fails with the size-limit error exactly when the compressed artifact is
\* larger, and then the artifact is not handed to the upload; a size-limit
\* failure leaves the remaining groups to be processed.
C8_SizeCeiling ==
    /\ \A k \in DOMAIN s3_objects : s3_objects[k].size <= SIZE_LIMIT
    /\ pc \in {"upload", "cleanup", "group_done"} =>
          /\ gz_size > SIZE_LIMIT => (exc = Some("size_limit") /\ pc # "upload")
          /\ exc = Some("size_limit") =>
                /\ gz_size > SIZE_LIMIT
                /\ Basename(final_files[fi] \o DOT_GZ) \notin Elems(processed_files)
    /\ pc = "upload" => gz_size <= SIZE_LIMIT
    /\ EndedAfterListing => Len(group_log) = Len(grouped_files)

\* a group failed on the ceiling, and the group after it stored an object of
\* exactly 250 MiB
C8_Witness ==
    /\ pc = "done"
    /\ Len(group_log) = 2
    /\ ReturnValue.errors = <<GroupError(grouped_files[1].key, "size_limit")>>
    /\ \E k \in Elems(group_log[2].uploaded) : s3_objects[k].size = SIZE_LIMIT

\* the artifacts of the group whose compression and size check have succeeded
CompressedCount == IF pc = "upload" THEN fi ELSE fi - 1

\* the first three steps are done for the whole group before the next starts
StagesInOrder ==
    /\ pc \in {"merge", "unzip", "gzip", "upload"} =>
          fetched = MemberNames(file_group)
    /\ pc \in {"gzip", "upload"} =>
          /\ Len(final_files) = Len(local_files)
          /\ merged <=> AnyPartNum(file_group)
    /\ (InGroup /\ processed_files # <<>>) => fetched = MemberNames(file_group)

\* C9 as stated -- the five steps run one after the other for the whole group:
\* no artifact is uploaded before every artifact of the group is compressed
\* and checked.
C9_StepOrderWholeGroup ==
    /\ StagesInOrder
    /\ (pc \in {"gzip", "upload"} /\ processed_files # <<>>) =>
          CompressedCount = Len(final_files)

\* C9 amended -- materialize, reassemble and unarchive run one after the
\* other for the whole group, and each artifact is uploaded only after its
\* own compression and size check have succeeded.
C9_StepOrderPerArtifact ==
    /\ StagesInOrder
    /\ pc \in {"gzip", "upload"} =>
          /\ Len(processed_files) <= CompressedCount
          /\ \A k \in 1..Len(processed_files) :
                LET gzipped_path == final_files[k] \o DOT_GZ IN
                /\ processed_files[k] = Basename(gzipped_path)
                /\ gzipped_path \in DOMAIN fs
                /\ fs[gzipped_path].enc # <<>>
                /\ fs[gzipped_path].enc[Len(fs[gzipped_path].enc)] = "gzip"
    /\ pc = "upload" =>
          /\ (final_files[fi] \o DOT_GZ) \in DOMAIN fs
          /\ ~ExceedsLimit(gz_size)

\* one artifact of a group is uploaded, the next is not yet compressed
C9_Witness ==
    /\ pc = "gzip"
    /\ fi = 2
    /\ Len(processed_files) = 1
    /\ Cardinality(fetched) = 2

\* every member has a part number and the part numbers differ
AllNumberedDistinct ==
    /\ \A i \in 1..Len(file_group) : HasPartNum(file_group[i])
    /\ \A i, j \in 1..Len(file_group) :
          i # j => file_group[i].part_num # file_group[j].part_num

\* the numeric prefixes of the members have the same number of digits
SamePrefixWidth ==
    \A i, j \in 1..Len(file_group) :
        DigitRun(file_group[i].full_name, 1) = DigitRun(file_group[j].full_name, 1)

\* the part number of the file a byte of the merged artifact comes from
PartOf(name) == parse_filename(name)[1].part_num[1]

InPartOrder ==
    /\ Len(MergedBytes) = Len(file_group)
    /\ \A i, j \in 1..Len(MergedBytes) :
          i < j => PartOf(MergedBytes[i]) < PartOf(MergedBytes[j])

\* C10 as stated -- when all members have distinct part numbers, the merged
\* artifact holds them in ascending order of the integer part number, for
\* prefixes of any form.
C10_PartOrderAnyPrefix ==
    (MergeDone /\ AllNumberedDistinct) => InPartOrder

\* C10 amended -- the same, for numeric prefixes of one and the same number
\* of digits.
C10_PartOrderSameWidth ==
    (MergeDone /\ AllNumberedDistinct /\ SamePrefixWidth) => InPartOrder

\* three parts with one-digit prefixes, listed in another order than merged
C10_Witness ==
    /\ MergeDone
    /\ AllNumberedDistinct
    /\ SamePrefixWidth
    /\ Len(file_group) = MaxListing
    /\ file_group[1].full_name # MergedBytes[1]

====
